---- MODULE Spec2Model ----
(***************************************************************************)
(* A model of AIdebugger.py: the upload validators, the OCR adapter with   *)
(* its retry loop, analyze_code (reply cleaning, repair and JSON parse),   *)
(* the results display, and the Streamlit script as a machine over the     *)
(* session state, one action per user event and the script run it causes.  *)
(*                                                                         *)
(* Text is a sequence of one-character strings.  The backtick cannot be    *)
(* written in a string of this language and is the atom BT.                *)
(***************************************************************************)
EXTENDS Integers, Sequences, FiniteSets, TLC

\* ------------------------------------------------------------------ text

\* F applied to the value v: a local name for a value used more than once.
Bind(v, F(_)) == F(v)

BT == "<backtick>"

\* The whitespace str.strip() and the regex class \s remove, and the
\* control characters [\x00-\x1F], among the characters the model draws.
Whitespace == {" ", "\n", "\t", "\r"}
ControlChars == {"\n", "\t", "\r"}

StartsWith(s, i, p) ==
    /\ i + Len(p) - 1 <= Len(s)
    /\ \A k \in 1..Len(p) : s[i + k - 1] = p[k]

\* str.replace(old, new): every non-overlapping occurrence, left to right.
\* From index i: the text up to the next occurrence, then new, then the
\* rest after the occurrence.
RECURSIVE ReplaceFrom(_, _, _, _)
ReplaceFrom(s, old, new, i) ==
    LET found == {j \in i..Len(s) : StartsWith(s, j, old)} IN
    IF found = {} THEN SubSeq(s, i, Len(s))
    ELSE LET j == CHOOSE j \in found : \A k \in found : j <= k
         IN SubSeq(s, i, j - 1) \o new \o ReplaceFrom(s, old, new, j + Len(old))

Replace(s, old, new) == ReplaceFrom(s, old, new, 1)

\* The characters of s that are not in the set drop (re.sub of a class by "").
Remove(s, drop) == SelectSeq(s, LAMBDA c : c \notin drop)

RECURSIVE LStrip(_)
LStrip(s) == IF s # <<>> /\ Head(s) \in Whitespace THEN LStrip(Tail(s)) ELSE s

RECURSIVE RStrip(_)
RStrip(s) ==
    IF s # <<>> /\ s[Len(s)] \in Whitespace
    THEN RStrip(SubSeq(s, 1, Len(s) - 1)) ELSE s

\* str.strip()
Strip(s) == RStrip(LStrip(s))

UpperLetters ==
    <<"A", "B", "C", "D", "E", "F", "G", "H", "I", "J", "K", "L", "M",
      "N", "O", "P", "Q", "R", "S", "T", "U", "V", "W", "X", "Y", "Z">>
LowerLetters ==
    <<"a", "b", "c", "d", "e", "f", "g", "h", "i", "j", "k", "l", "m",
      "n", "o", "p", "q", "r", "s", "t", "u", "v", "w", "x", "y", "z">>

\* str.lower(), and the (?i) of a pattern, on ASCII letters.
LowerChar(c) ==
    IF \E k \in 1..26 : UpperLetters[k] = c
    THEN LowerLetters[CHOOSE k \in 1..26 : UpperLetters[k] = c]
    ELSE c

Lower(s) == [k \in 1..Len(s) |-> LowerChar(s[k])]

\* ------------------------------------------------------------------ JSON values
\* A Python value as json.loads builds it.  Every value is a record of the
\* same four fields, so that any two values can be compared:
\*   t  the type ("dict", "list", "str", "int", "bool", "None"; "item" for a
\*      dict entry), s the characters of a str (or the key of an entry),
\*   l  the elements of a list, the entries of a dict, the value of an entry,
\*   n  the number of an int, 1/0 for a bool.

JStr(s) == [t |-> "str", s |-> s, l |-> <<>>, n |-> 0]
JInt(n) == [t |-> "int", s |-> <<>>, l |-> <<>>, n |-> n]
JBool(b) == [t |-> "bool", s |-> <<>>, l |-> <<>>, n |-> IF b THEN 1 ELSE 0]
JNone == [t |-> "None", s |-> <<>>, l |-> <<>>, n |-> 0]
JList(l) == [t |-> "list", s |-> <<>>, l |-> l, n |-> 0]
JItem(k, v) == [t |-> "item", s |-> k, l |-> <<v>>, n |-> 0]
JDict(items) == [t |-> "dict", s |-> <<>>, l |-> items, n |-> 0]

HasKey(d, k) == \E j \in 1..Len(d.l) : d.l[j].s = k

\* d[k], for a key d has
Get(d, k) == LET j == CHOOSE j \in 1..Len(d.l) : d.l[j].s = k IN d.l[j].l[1]

\* d[k] = v on the entries of a dict: a repeated key keeps its place and
\* takes the later value.
SetItem(items, k, v) ==
    IF \E j \in 1..Len(items) : items[j].s = k
    THEN [j \in 1..Len(items) |-> IF items[j].s = k THEN JItem(k, v) ELSE items[j]]
    ELSE Append(items, JItem(k, v))

\* bool(v)
Truthy(v) ==
    CASE v.t = "dict" -> v.l # <<>>
      [] v.t = "list" -> v.l # <<>>
      [] v.t = "str" -> v.s # <<>>
      [] v.t = "int" -> v.n # 0
      [] v.t = "bool" -> v.n = 1
      [] OTHER -> FALSE

\* ------------------------------------------------------------------ json.loads
\* The decoder of the json library on the characters the model draws:
\* objects, arrays, strings with the escapes \" \\ \/ \n \t \r, the
\* literals true, false and null, and unsigned integers.  (Fractions,
\* exponents, signs, \b, \f, \uXXXX, NaN and Infinity are not drawn.)
\* A parse gives [ok, v, i]: whether it succeeded, the value, and the index
\* after it; a failure is the JSONDecodeError the library raises.

Fail == [ok |-> FALSE, v |-> JNone, i |-> 0]
Parsed(v, i) == [ok |-> TRUE, v |-> v, i |-> i]

Digit == {"0", "1", "2", "3", "4", "5", "6", "7", "8", "9"}

DigitVal(c) ==
    CASE c = "0" -> 0 [] c = "1" -> 1 [] c = "2" -> 2 [] c = "3" -> 3
      [] c = "4" -> 4 [] c = "5" -> 5 [] c = "6" -> 6 [] c = "7" -> 7
      [] c = "8" -> 8 [] OTHER -> 9

Escapes == {"\"", "\\", "/", "n", "t", "r"}

Unescape(c) ==
    CASE c = "n" -> "\n" [] c = "t" -> "\t" [] c = "r" -> "\r" [] OTHER -> c

RECURSIVE SkipWs(_, _)
SkipWs(s, i) == IF i <= Len(s) /\ s[i] \in Whitespace THEN SkipWs(s, i + 1) ELSE i

\* scanstring, strict: from the character after the opening quote.
RECURSIVE ScanString(_, _, _)
ScanString(s, i, acc) ==
    IF i > Len(s) THEN Fail
    ELSE IF s[i] = "\"" THEN Parsed(JStr(acc), i + 1)
    ELSE IF s[i] \in ControlChars THEN Fail
    ELSE IF s[i] = "\\"
         THEN IF i + 1 <= Len(s) /\ s[i + 1] \in Escapes
              THEN ScanString(s, i + 2, Append(acc, Unescape(s[i + 1])))
              ELSE Fail
    ELSE ScanString(s, i + 1, Append(acc, s[i]))

RECURSIVE ScanDigits(_, _, _)
ScanDigits(s, i, n) ==
    IF i <= Len(s) /\ s[i] \in Digit
    THEN ScanDigits(s, i + 1, 10 * n + DigitVal(s[i]))
    ELSE Parsed(JInt(n), i)

\* NUMBER_RE: (0|[1-9]\d*), from a digit.
ScanNumber(s, i) ==
    IF s[i] = "0" THEN Parsed(JInt(0), i + 1) ELSE ScanDigits(s, i, 0)

RECURSIVE ScanOnce(_, _)
RECURSIVE ArrayLoop(_, _, _)
RECURSIVE ObjectLoop(_, _, _)

\* JSONArray: from the character after "[".
ParseArray(s, i) ==
    LET j == SkipWs(s, i) IN
    IF j <= Len(s) /\ s[j] = "]" THEN Parsed(JList(<<>>), j + 1)
    ELSE ArrayLoop(s, j, <<>>)

ArrayLoop(s, i, acc) ==
    LET r == ScanOnce(s, i) IN
    IF ~r.ok THEN Fail
    ELSE LET j == SkipWs(s, r.i) IN
         IF j > Len(s) THEN Fail
         ELSE IF s[j] = "]" THEN Parsed(JList(Append(acc, r.v)), j + 1)
         ELSE IF s[j] # "," THEN Fail
         ELSE ArrayLoop(s, SkipWs(s, j + 1), Append(acc, r.v))

\* JSONObject: from the character after "{".
ParseObject(s, i) ==
    LET j == SkipWs(s, i) IN
    IF j > Len(s) THEN Fail
    ELSE IF s[j] = "}" THEN Parsed(JDict(<<>>), j + 1)
    ELSE IF s[j] # "\"" THEN Fail
    ELSE ObjectLoop(s, j + 1, <<>>)

\* One "key": value pair, from the character after the key's opening quote.
ObjectLoop(s, i, acc) ==
    LET k == ScanString(s, i, <<>>) IN
    IF ~k.ok THEN Fail
    ELSE LET j == SkipWs(s, k.i) IN
         IF j > Len(s) \/ s[j] # ":" THEN Fail
         ELSE LET r == ScanOnce(s, SkipWs(s, j + 1)) IN
              IF ~r.ok THEN Fail
              ELSE LET m == SkipWs(s, r.i)
                       items == SetItem(acc, k.v.s, r.v) IN
                   IF m > Len(s) THEN Fail
                   ELSE IF s[m] = "}" THEN Parsed(JDict(items), m + 1)
                   ELSE IF s[m] # "," THEN Fail
                   ELSE LET q == SkipWs(s, m + 1) IN
                        IF q > Len(s) \/ s[q] # "\"" THEN Fail
                        ELSE ObjectLoop(s, q + 1, items)

\* scan_once
ScanOnce(s, i) ==
    IF i > Len(s) THEN Fail
    ELSE IF s[i] = "\"" THEN ScanString(s, i + 1, <<>>)
    ELSE IF s[i] = "{" THEN ParseObject(s, i + 1)
    ELSE IF s[i] = "[" THEN ParseArray(s, i + 1)
    ELSE IF StartsWith(s, i, <<"n", "u", "l", "l">>) THEN Parsed(JNone, i + 4)
    ELSE IF StartsWith(s, i, <<"t", "r", "u", "e">>) THEN Parsed(JBool(TRUE), i + 4)
    ELSE IF StartsWith(s, i, <<"f", "a", "l", "s", "e">>) THEN Parsed(JBool(FALSE), i + 5)
    ELSE IF s[i] \in Digit THEN ScanNumber(s, i)
    ELSE Fail

\* json.loads(s): one value, with nothing but whitespace around it.
json_loads(s) ==
    LET r == ScanOnce(s, SkipWs(s, 1)) IN
    IF r.ok /\ SkipWs(s, r.i) = Len(s) + 1 THEN r ELSE Fail

\* ------------------------------------------------------------------ analyze_code

K_error == <<"e", "r", "r", "o", "r">>
K_bugs == <<"b", "u", "g", "s">>
K_fixes == <<"f", "i", "x", "e", "s">>
K_corrected_code ==
    <<"c", "o", "r", "r", "e", "c", "t", "e", "d", "_", "c", "o", "d", "e">>
K_optimizations ==
    <<"o", "p", "t", "i", "m", "i", "z", "a", "t", "i", "o", "n", "s">>
K_explanation == <<"e", "x", "p", "l", "a", "n", "a", "t", "i", "o", "n">>

\* The messages of the error records, each kept as one piece of text.
ParseFailed == <<"Failed to parse AI response">>
AnalysisFailed(e) == <<"Analysis failed: ", e>>

ErrorRecord(msg) == JDict(<<JItem(K_error, JStr(msg))>>)

\* re.sub(r'(?i)^\s*(```json|```)', '', raw_text)
StripFence(raw) ==
    LET j == SkipWs(raw, 1) IN
    IF StartsWith(Lower(raw), j, <<BT, BT, BT, "j", "s", "o", "n">>)
    THEN SubSeq(raw, j + 7, Len(raw))
    ELSE IF StartsWith(raw, j, <<BT, BT, BT>>)
         THEN SubSeq(raw, j + 3, Len(raw))
         ELSE raw

\* The chain of str.replace calls that builds `repaired`.
Repair(cleaned) ==
    LET a == Replace(cleaned, <<"'">>, <<"\"">>)
        b == Replace(a, <<"T", "r", "u", "e">>, <<"t", "r", "u", "e">>)
        c == Replace(b, <<"F", "a", "l", "s", "e">>, <<"f", "a", "l", "s", "e">>)
        d == Replace(c, <<"N", "o", "n", "e">>, <<"n", "u", "l", "l">>)
    IN Replace(d, <<",", "\n", "}">>, <<"\n", "}">>)

\* What the model call gives: [kind |-> "raises", exc] when generate_content
\* or response.text raises, [kind |-> "text", text] otherwise.
Raises(e) == [kind |-> "raises", exc |-> e, text |-> <<>>]
Text(t) == [kind |-> "text", exc |-> "", text |-> t]

\* analyze_code(code, language), given what the model call gives.  The code
\* and the language go into the prompt only.
analyze_code(code, language, reply) ==
    IF reply.kind = "raises" THEN ErrorRecord(AnalysisFailed(reply.exc))
    ELSE LET raw_text == Strip(reply.text)
             cleaned == Remove(StripFence(raw_text), ControlChars)
             r == json_loads(Repair(cleaned))
         IN IF r.ok THEN r.v ELSE ErrorRecord(ParseFailed)

\* ------------------------------------------------------------------ results display

\* "error" in results, for the types that support `in`
Contains(results, k) ==
    CASE results.t = "dict" -> HasKey(results, k)
      [] results.t = "list" -> \E j \in 1..Len(results.l) : results.l[j] = JStr(k)
      [] OTHER -> \E j \in 1..Len(results.s) : StartsWith(results.s, j, k)

\* results.get(k, default)
GetOr(results, k, default) == IF HasKey(results, k) THEN Get(results, k) ELSE default

\* Whether `for x in v` runs: a list, a str or a dict is iterable.
Iterable(v) == v.t \in {"list", "str", "dict"}

\* The Results Display block on the stored value: "hidden" when the value is
\* falsy, "error" when the error message is shown, "results" when the four
\* panels are rendered, "raised" when a statement of the block raises
\* (TypeError or AttributeError) and the exception leaves the script.
Display(results) ==
    IF ~Truthy(results) THEN "hidden"
    ELSE IF results.t \notin {"dict", "list", "str"} THEN "raised"
    ELSE IF Contains(results, K_error)
         THEN IF results.t = "dict" THEN "error" ELSE "raised"
    ELSE IF results.t # "dict" THEN "raised"
    ELSE IF /\ Iterable(GetOr(results, K_bugs, JList(<<>>)))
            /\ Iterable(GetOr(results, K_fixes, JList(<<>>)))
            /\ Iterable(GetOr(results, K_explanation, JList(<<>>)))
         THEN "results"
         ELSE "raised"

\* ------------------------------------------------------------------ constants

MAX_IMAGE_SIZE == 5 * 1024 * 1024
ALLOWED_IMAGE_TYPES == {"jpeg", "png"}
ALLOWED_CODE_EXTENSIONS ==
    {<<"p", "y">>, <<"j", "a", "v", "a">>, <<"j", "s">>, <<"c", "p", "p">>,
     <<"h", "t", "m", "l">>, <<"c", "s", "s">>, <<"p", "h", "p">>}
MAX_CODE_LENGTH == 5000

\* ------------------------------------------------------------------ validate_image
\* An uploaded image: its name, its size in bytes, what imghdr.what makes of
\* its header ("None" when it recognises nothing), and the exception its
\* seek/tell raise ("" when they work).

validate_image(file) ==
    IF file.fault # "" THEN <<FALSE, <<"Validation error: ", file.fault>>>>
    ELSE IF file.size > MAX_IMAGE_SIZE
         THEN <<FALSE, <<"File too large (", ToString(file.size \div 1024), "KB > 5MB)">>>>
    ELSE IF file.what \notin ALLOWED_IMAGE_TYPES
         THEN <<FALSE, <<"Unsupported format: ",
                         IF file.what = "None" THEN "unknown" ELSE file.what>>>>
    ELSE <<TRUE, <<>>>>

\* ------------------------------------------------------------------ validate_code_file
\* bytes.decode('utf-8') on one- and two-byte forms (lead bytes E0..F4 are
\* not drawn): [ok, text]; not ok is the UnicodeDecodeError.

IsAscii(b) == b < 128
IsLead2(b) == b >= 194 /\ b <= 223
IsCont(b) == b >= 128 /\ b <= 191

ValidUtf8(bytes) ==
    \A i \in 1..Len(bytes) :
        \/ IsAscii(bytes[i])
        \/ IsLead2(bytes[i]) /\ i < Len(bytes) /\ IsCont(bytes[i + 1])
        \/ IsCont(bytes[i]) /\ i > 1 /\ IsLead2(bytes[i - 1])

\* The character of a code point: the ASCII characters the model draws,
\* and the code point's number as the name of any other character.
Chr(cp) ==
    CASE cp = 10 -> "\n" [] cp = 32 -> " " [] cp = 97 -> "a" [] cp = 98 -> "b"
      [] OTHER -> ToString(cp)

decode_utf8(bytes) ==
    IF ~ValidUtf8(bytes) THEN [ok |-> FALSE, text |-> <<>>]
    ELSE LET starts == SelectSeq([i \in 1..Len(bytes) |-> i],
                                 LAMBDA i : ~IsCont(bytes[i]))
         IN [ok |-> TRUE,
             text |-> [k \in 1..Len(starts) |->
                          LET b == bytes[starts[k]] IN
                          IF IsAscii(b) THEN Chr(b)
                          ELSE Chr((b - 192) * 64 + (bytes[starts[k] + 1] - 128))]]

\* filename.split('.')[-1]
LastPart(name) ==
    LET dots == {i \in 1..Len(name) : name[i] = "."} IN
    IF dots = {} THEN name
    ELSE SubSeq(name, (CHOOSE i \in dots : \A j \in dots : j <= i) + 1, Len(name))

\* A variant of validate_code_file that lets one character more through:
\* the length check is off by one.
validate_code_file_lenient(file) ==
    LET ext == LastPart(Lower(file.name))
        d == decode_utf8(file.bytes)
    IN IF ext \notin ALLOWED_CODE_EXTENSIONS
       THEN <<FALSE, <<>>, <<"Unsupported file type: .">> \o ext>>
       ELSE IF file.fault # "" THEN <<FALSE, <<>>, <<"Validation error: ", file.fault>>>>
       ELSE IF ~d.ok THEN <<FALSE, <<>>, <<"Invalid text encoding">>>>
       ELSE IF Len(d.text) > MAX_CODE_LENGTH + 1
            THEN <<FALSE, <<>>, <<"File too large (", ToString(Len(d.text)), " > ",
                                  ToString(MAX_CODE_LENGTH), " chars)">>>>
       ELSE <<TRUE, d.text, ext>>

\* An uploaded source file: its name, its bytes, and the exception read()
\* raises ("" when it works).  The result is the triple the function returns.
validate_code_file(file) ==
    LET ext == LastPart(Lower(file.name))
        d == decode_utf8(file.bytes)
    IN IF ext \notin ALLOWED_CODE_EXTENSIONS
       THEN <<FALSE, <<>>, <<"Unsupported file type: .">> \o ext>>
       ELSE IF file.fault # "" THEN <<FALSE, <<>>, <<"Validation error: ", file.fault>>>>
       ELSE IF ~d.ok THEN <<FALSE, <<>>, <<"Invalid text encoding">>>>
       ELSE IF Len(d.text) > MAX_CODE_LENGTH
            THEN <<FALSE, <<>>, <<"File too large (", ToString(Len(d.text)), " > ",
                                  ToString(MAX_CODE_LENGTH), " chars)">>>>
       ELSE <<TRUE, d.text, ext>>

\* ------------------------------------------------------------------ extract_code_from_image

max_retries == 3

\* A variant of the backoff that waits one second before every retry.
OneSecond(n) == 1

RECURSIVE Pow2(_)
Pow2(n) == IF n = 0 THEN 1 ELSE 2 * Pow2(n - 1)

\* What one call of client.text_detection gives: a response (its
\* error.message and the descriptions of its text_annotations) or an
\* exception of a named class.
Response(msg, annotations) ==
    [kind |-> "response", exc |-> "", message |-> msg, annotations |-> annotations]
Raised(e) == [kind |-> "raises", exc |-> e, message |-> <<>>, annotations |-> <<>>]

Call(attempt) == [op |-> "text_detection", arg |-> attempt]
Sleep(seconds) == [op |-> "sleep", arg |-> seconds]

\* The retry loop, from `attempt` on: outcomes[attempt + 1] is what the call
\* of that attempt gives.  The result is the response the loop leaves, or
\* the exception it re-raises, with the calls and sleeps made, in order.
RECURSIVE RetryLoop(_, _, _)
RetryLoop(outcomes, attempt, events) ==
    IF attempt >= max_retries
    THEN [response |-> Raised("AttributeError"), raised |-> "", events |-> events]
    ELSE LET o == outcomes[attempt + 1]
             called == Append(events, Call(attempt))
         IN IF o.kind = "response"
            THEN [response |-> o, raised |-> "", events |-> called]
            ELSE IF attempt = max_retries - 1
                 THEN [response |-> o, raised |-> o.exc, events |-> called]
                 ELSE RetryLoop(outcomes, attempt + 1,
                                Append(called, Sleep(Pow2(attempt))))

\* re.sub(r'\n{3,}', '\n\n', raw_text): a run of three or more newlines
\* becomes two.
RECURSIVE CollapseNewlines(_, _)
CollapseNewlines(s, i) ==
    IF i > Len(s) THEN <<>>
    ELSE IF s[i] = "\n" /\ i >= 3 /\ s[i - 1] = "\n" /\ s[i - 2] = "\n"
         THEN CollapseNewlines(s, i + 1)
         ELSE <<s[i]>> \o CollapseNewlines(s, i + 1)

\* re.sub(r'(?<!\n)\n(?!\n)', ' ', cleaned): a newline with no newline
\* next to it becomes a space.
JoinLines(s) ==
    [i \in 1..Len(s) |->
        IF /\ s[i] = "\n"
           /\ ~(i > 1 /\ s[i - 1] = "\n")
           /\ ~(i < Len(s) /\ s[i + 1] = "\n")
        THEN " " ELSE s[i]]

CleanOcrText(raw_text) == JoinLines(Strip(CollapseNewlines(raw_text, 1)))

\* A variant of the handlers that returns no reason.
NoReason(exc) == <<>>

\* The handlers of the outer try, by the class of the exception.
OcrFailure(exc) ==
    IF exc = "TimeoutError" THEN <<"OCR processing timed out">>
    ELSE IF exc \in {"GoogleAPICallError", "RetryError"} THEN <<"API Error: ", exc>>
    ELSE <<"Processing Error: ", exc>>

\* extract_code_from_image(image): `credentials` is the module's credentials
\* object (FALSE when it is None), `setup` the exception that building the
\* client or reading the image raises ("" when they work).
\* The result is [ret, events]: the pair returned, and the calls and sleeps.
extract_code_from_image(credentials, setup, outcomes) ==
    IF ~credentials
    THEN [ret |-> <<FALSE, <<"Missing Google Cloud credentials">>>>, events |-> <<>>]
    ELSE IF setup # "" THEN [ret |-> <<FALSE, OcrFailure(setup)>>, events |-> <<>>]
    ELSE LET loop == RetryLoop(outcomes, 0, <<>>)
             response == loop.response
         IN [events |-> loop.events,
             ret |->
                IF loop.raised # "" THEN <<FALSE, OcrFailure(loop.raised)>>
                ELSE IF response.kind # "response"
                     THEN <<FALSE, OcrFailure(response.exc)>>
                ELSE IF response.message # <<>>
                     THEN <<FALSE, <<"API Error: ">> \o response.message>>
                ELSE IF response.annotations = <<>>
                     THEN <<FALSE, <<"No text detected">>>>
                ELSE <<TRUE, CleanOcrText(response.annotations[1])>>]

\* ------------------------------------------------------------------ state

VARIABLES
    credentials,     \* the module's Vision credentials: FALSE when None
    session_state,   \* st.session_state: the seven keys of session_defaults
    input_method,    \* the radio's value
    img_file,        \* the image uploader's file: an index of ImageFiles, 0 for None
    code_file,       \* the source uploader's file: an index of CodeFiles, 0 for None
    pasted_code,     \* the text area's value
    analyze_button,  \* whether the last script run rendered the Analyze button
    rerun,           \* whether the last script run ended in st.rerun()
    run,             \* what the last script run called (see Observed)
    call             \* a function under check: its name, argument and result

vars ==
    <<credentials, session_state, input_method, img_file, code_file, pasted_code,
      analyze_button, rerun, run, call>>

Methods == {"Upload Image", "Upload File", "Paste Code"}

\* None, for processed_file_id and file_extension
NoneId == <<"None", <<>>, 0>>
NoExt == <<"None">>

session_defaults ==
    [chat_history |-> <<>>,
     analysis_results |-> JDict(<<>>),
     current_code |-> <<>>,
     processed_file_id |-> NoneId,
     current_input_method |-> "None",
     file_extension |-> NoExt,
     processing |-> FALSE]

\* ------------------------------------------------------------------ the script's blocks
\* Each block takes the session state it finds and gives the one it leaves,
\* with the locals it sets and the calls it makes.

\* "Reset state when input method changes"
MethodReset(ss, m) ==
    IF ss.current_input_method # m
    THEN [ss EXCEPT !.processed_file_id = NoneId,
                    !.current_input_method = m,
                    !.file_extension = NoExt,
                    !.processing = FALSE,
                    !.current_code = <<>>,
                    !.analysis_results = JDict(<<>>)]
    ELSE ss

\* What a branch leaves: the session state, error_message, language, the
\* validator's verdict ("none" when it was not called), whether
\* extract_code_from_image was called, and the calls and sleeps it made.
Branch(ss, error_message, language, valid, extracted, events) ==
    [ss |-> ss, error_message |-> error_message, language |-> language,
     valid |-> valid, extracted |-> extracted, events |-> events]

Skipped(ss) == Branch(ss, <<>>, "text", "none", FALSE, <<>>)

\* st.session_state.processing = True, before the try
Begin(ss) == [ss EXCEPT !.processing = TRUE]

\* A variant of the run without the finally clause.
NoFinally(ss) == ss

\* finally: st.session_state.processing = False
Finally(ss) == [ss EXCEPT !.processing = FALSE]

\* "Image Upload Handling": file is the uploader's file (a record of
\* ImageFiles) or None (has = FALSE).
ImageBranch(ss, has, file, setup, outcomes) ==
    LET current_file_id == <<"image", file.name, file.size>> IN
    IF ~(has /\ ~ss.processing) THEN Skipped(ss)
    ELSE IF ss.processed_file_id = current_file_id THEN Skipped(ss)
    ELSE LET p == Begin(ss)
             v == validate_image(file)
             x == extract_code_from_image(credentials, setup, outcomes)
         IN IF ~v[1]
            THEN Branch(Finally([p EXCEPT !.processed_file_id = NoneId,
                                          !.current_code = <<>>]),
                        <<"Invalid image: ">> \o v[2], "text", "no", FALSE, <<>>)
            ELSE IF x.ret[1]
                 THEN Branch(Finally([p EXCEPT !.processed_file_id = current_file_id,
                                               !.current_code = x.ret[2],
                                               !.analysis_results = JDict(<<>>)]),
                             <<>>, "text", "yes", TRUE, x.events)
                 ELSE Branch(Finally([p EXCEPT !.processed_file_id = NoneId,
                                               !.current_code = <<>>]),
                             <<"Extraction failed: ">> \o x.ret[2], "text", "yes",
                             TRUE, x.events)

\* The dict that maps an extension to a language, with .get(ext, "text").
LanguageOf(ext) ==
    CASE ext = <<"p", "y">> -> "python"
      [] ext = <<"j", "a", "v", "a">> -> "java"
      [] ext = <<"j", "s">> -> "javascript"
      [] ext = <<"c", "p", "p">> -> "cpp"
      [] ext = <<"h", "t", "m", "l">> -> "html"
      [] ext = <<"c", "s", "s">> -> "css"
      [] ext = <<"p", "h", "p">> -> "php"
      [] OTHER -> "text"

\* A variant of the File Upload Handling whose rejection path leaves
\* current_code and processed_file_id as they were.
FileBranchKeeping(ss, has, file) ==
    LET current_file_id == <<"file", file.name, Len(file.bytes)>> IN
    IF ~(has /\ ~ss.processing) THEN Skipped(ss)
    ELSE IF ss.processed_file_id = current_file_id THEN Skipped(ss)
    ELSE LET p == Begin(ss)
             v == validate_code_file(file)
         IN IF ~v[1]
            THEN Branch(Finally([p EXCEPT !.file_extension = NoExt]),
                        <<"Invalid file: ">> \o v[2], "text", "no", FALSE, <<>>)
            ELSE Branch(Finally([p EXCEPT !.processed_file_id = current_file_id,
                                          !.current_code = v[2],
                                          !.file_extension = v[3],
                                          !.analysis_results = JDict(<<>>)]),
                        <<>>, LanguageOf(v[3]), "yes", FALSE, <<>>)

\* "File Upload Handling": file is the uploader's file (a record of
\* CodeFiles) or None (has = FALSE).
FileBranch(ss, has, file) ==
    LET current_file_id == <<"file", file.name, Len(file.bytes)>> IN
    IF ~(has /\ ~ss.processing) THEN Skipped(ss)
    ELSE IF ss.processed_file_id = current_file_id THEN Skipped(ss)
    ELSE LET p == Begin(ss)
             v == validate_code_file(file)
         IN IF ~v[1]
            THEN Branch(Finally([p EXCEPT !.processed_file_id = NoneId,
                                          !.file_extension = NoExt,
                                          !.current_code = <<>>]),
                        <<"Invalid file: ">> \o v[2], "text", "no", FALSE, <<>>)
            ELSE Branch(Finally([p EXCEPT !.processed_file_id = current_file_id,
                                          !.current_code = v[2],
                                          !.file_extension = v[3],
                                          !.analysis_results = JDict(<<>>)]),
                        <<>>, LanguageOf(v[3]), "yes", FALSE, <<>>)

\* "Code Paste Handling": new_code is the text area's value.
PasteBranch(ss, new_code) ==
    IF new_code # ss.current_code
    THEN Skipped([ss EXCEPT !.current_code = new_code,
                            !.analysis_results = JDict(<<>>)])
    ELSE Skipped(ss)

\* "Analysis Trigger": shown is whether the button is rendered, clicked
\* whether st.button returns True, reply what the model call gives.
\* The result is the session state and the arguments of each analyze_code
\* call made.
ButtonShown(ss, error_message) == Strip(ss.current_code) # <<>> /\ error_message = <<>>

AnalysisTrigger(ss, error_message, language, clicked, reply) ==
    IF ButtonShown(ss, error_message) /\ clicked
    THEN [ss |-> [ss EXCEPT !.analysis_results =
                                analyze_code(ss.current_code, language, reply)],
          analyzed |-> <<[code |-> ss.current_code, language |-> language]>>]
    ELSE [ss |-> ss, analyzed |-> <<>>]

\* "Chat Interface": user_query is the submitted text (<<>> when none),
\* reply what the model call gives.  The result is the chat history and
\* whether st.rerun() ends the run.
ChatInterface(ss, user_query, reply) ==
    IF user_query = <<>> \/ ss.processing
    THEN [ss |-> ss, rerun |-> FALSE]
    ELSE LET asked == [ss EXCEPT !.chat_history =
                          Append(@, [role |-> "user", content |-> user_query])]
         IN IF reply.kind = "text" /\ reply.text # <<>>
            THEN [ss |-> [asked EXCEPT !.chat_history =
                             Append(@, [role |-> "assistant", content |-> reply.text])],
                  rerun |-> TRUE]
            ELSE [ss |-> asked, rerun |-> FALSE]

\* ------------------------------------------------------------------ one script run
\* The widgets' values and the answers of the two services are the inputs of
\* a run:
\*   method, image, source, new_code   the radio, the uploaders (an index, 0
\*                                     for None) and the text area
\*   clicked, user_query               the Analyze button and the chat input
\*   setup, outcomes                   what the Vision client does
\*   reply, chat_reply                 what the model calls give

NoFile == 0

\* The rest of a run once the branch is done.
AfterBranch(in, branch, trigger, shown, chat) ==
    [ss |-> chat.ss,
     button |-> ButtonShown(branch.ss, branch.error_message),
     rerun |-> chat.rerun,
     observed |->
         [valid |-> branch.valid,
          extracted |-> branch.extracted,
          events |-> branch.events,
          error_message |-> branch.error_message,
          analyzed |-> trigger.analyzed,
          display |-> shown]]

ScriptRun(ss, in) ==
    Bind(MethodReset(ss, in.method), LAMBDA reset :
    Bind(IF in.method = "Upload Image"
         THEN ImageBranch(reset, in.image # NoFile, in.image_file, in.setup, in.outcomes)
         ELSE IF in.method = "Upload File"
              THEN FileBranch(reset, in.source # NoFile, in.source_file)
              ELSE PasteBranch(reset, in.new_code), LAMBDA branch :
    Bind(AnalysisTrigger(branch.ss, branch.error_message, branch.language,
                         in.clicked, in.reply), LAMBDA trigger :
    Bind(Display(trigger.ss.analysis_results), LAMBDA shown :
    Bind(IF shown = "raised"
         THEN [ss |-> trigger.ss, rerun |-> FALSE]
         ELSE ChatInterface(trigger.ss, in.user_query, in.chat_reply), LAMBDA chat :
    AfterBranch(in, branch, trigger, shown, chat))))))

\* ------------------------------------------------------------------ inputs
\* The files a user uploads, the texts the services answer with.

Name_a_png == <<"a", ".", "p", "n", "g">>
Name_b_jpg == <<"b", ".", "j", "p", "g">>
Name_c_png == <<"c", ".", "p", "n", "g">>

Image(name, size, what, fault) ==
    [name |-> name, size |-> size, what |-> what, fault |-> fault]

\* The images of a session: a small PNG, a JPEG one byte over the limit, and
\* a GIF under a .png name.
ImageFiles ==
    <<Image(Name_a_png, 1000, "png", ""),
      Image(Name_b_jpg, MAX_IMAGE_SIZE + 1, "jpeg", ""),
      Image(Name_c_png, 2000, "gif", "")>>

Name_a_py == <<"a", ".", "p", "y">>
Name_b_JS == <<"b", ".", "J", "S">>
Name_c_py == <<"c", ".", "p", "y">>
Name_d_py == <<"d", ".", "p", "y">>

Source(name, bytes, fault) == [name |-> name, bytes |-> bytes, fault |-> fault]

\* n bytes "a"
Filler(n) == [i \in 1..n |-> 97]

\* The source files of a session: two small ones, one that is not UTF-8, and
\* one whose read() fails.  (Files over the length limit are drawn where
\* validate_code_file is checked on its own.)
CodeFiles ==
    <<Source(Name_a_py, <<97, 10, 98>>, ""),
      Source(Name_b_JS, <<98>>, ""),
      Source(Name_c_py, <<97, 255>>, ""),
      Source(Name_d_py, <<97>>, "OSError")>>

\* What is typed into the text area (max_chars keeps it within the limit).
Pastes == {<<>>, <<"a">>, <<" ">>}

OcrText == <<"a", "\n", "b", "\n", "\n", "\n", "\n", "c", "\n">>

Outcomes ==
    {Response(<<>>, <<OcrText>>),
     Response(<<>>, <<<<"\n", " ">>, <<"a">>>>),
     Response(<<>>, <<>>),
     Response(<<"quota exceeded">>, <<<<"a">>>>),
     Raised("TimeoutError"),
     Raised("GoogleAPICallError"),
     Raised("ValueError")}

Setups == {"", "DefaultCredentialsError"}

\* A JSON text of a value, as json.dumps writes it: ", " and ": " as
\* separators, and in a string \" \\ \n \t for the characters that need it.
EscapeChar(c) ==
    CASE c = "\"" -> <<"\\", "\"">>
      [] c = "\\" -> <<"\\", "\\">>
      [] c = "\n" -> <<"\\", "n">>
      [] c = "\t" -> <<"\\", "t">>
      [] OTHER -> <<c>>

RECURSIVE Flatten(_)
Flatten(ss) == IF ss = <<>> THEN <<>> ELSE Head(ss) \o Flatten(Tail(ss))

Quoted(s) == <<"\"">> \o Flatten([k \in 1..Len(s) |-> EscapeChar(s[k])]) \o <<"\"">>

RECURSIVE Join(_)
Join(parts) ==
    IF parts = <<>> THEN <<>>
    ELSE IF Len(parts) = 1 THEN parts[1]
    ELSE parts[1] \o <<",", " ">> \o Join(Tail(parts))

Digits == <<"0", "1", "2", "3", "4", "5", "6", "7", "8", "9">>

RECURSIVE Dumps(_)
Dumps(v) ==
    CASE v.t = "str" -> Quoted(v.s)
      [] v.t = "int" -> <<Digits[v.n + 1]>>
      [] v.t = "bool" -> IF v.n = 1 THEN <<"t", "r", "u", "e">>
                         ELSE <<"f", "a", "l", "s", "e">>
      [] v.t = "None" -> <<"n", "u", "l", "l">>
      [] v.t = "list" -> <<"[">> \o Join([k \in 1..Len(v.l) |-> Dumps(v.l[k])]) \o <<"]">>
      [] OTHER ->
           <<"{">>
           \o Join([k \in 1..Len(v.l) |->
                       Quoted(v.l[k].s) \o <<":", " ">> \o Dumps(v.l[k].l[1])])
           \o <<"}">>

\* The record the prompt asks for: four lists of strings and one string.
Strings(texts) == JList([k \in 1..Len(texts) |-> JStr(texts[k])])

Analysis(bugs, fixes, corrected_code, optimizations, explanation) ==
    JDict(<<JItem(K_bugs, Strings(bugs)),
            JItem(K_fixes, Strings(fixes)),
            JItem(K_corrected_code, JStr(corrected_code)),
            JItem(K_optimizations, Strings(optimizations)),
            JItem(K_explanation, Strings(explanation))>>)

RequiredKeys == {K_bugs, K_fixes, K_corrected_code, K_optimizations, K_explanation}
ListKeys == {K_bugs, K_fixes, K_optimizations, K_explanation}

\* The shape the prompt asks for.
WellShaped(v) ==
    /\ v.t = "dict"
    /\ \A k \in RequiredKeys : HasKey(v, k)
    /\ Get(v, K_corrected_code).t = "str"
    /\ \A k \in ListKeys :
          /\ Get(v, k).t = "list"
          /\ \A j \in 1..Len(Get(v, k).l) : Get(v, k).l[j].t = "str"

\* The texts of the fields: plain, with an apostrophe, the words True,
\* False and None, a newline, a double quote, and the empty text.
Plain == <<"a", "b">>
FieldTexts ==
    {Plain,
     <<"i", "t", "'", "s">>,
     <<"T", "r", "u", "e">>,
     <<"i", "s", " ", "F", "a", "l", "s", "e">>,
     <<"N", "o", "n", "e">>,
     <<"a", "\n", "b">>,
     <<"\"", "a", "\"">>,
     <<>>}

\* Well-formed records: every pair of a one-element or empty bug list and a
\* corrected_code, and every text in all five fields at once.
WellFormed ==
    {Analysis(b, <<Plain>>, c, <<>>, <<Plain>>) :
        b \in {<<>>} \cup {<<t>> : t \in FieldTexts}, c \in FieldTexts}
    \cup {Analysis(<<t, t>>, <<t>>, t, <<t>>, <<t>>) : t \in FieldTexts}

Without(d, k) == JDict(SelectSeq(d.l, LAMBDA it : it.s # k))
With(d, k, v) == JDict(SetItem(d.l, k, v))

Sample == Analysis(<<Plain>>, <<Plain>>, Plain, <<Plain>>, <<Plain>>)

\* Values that parse but are not of the shape: a key missing, a value of
\* the wrong type, or no dict at all.
NotAList ==
    {JStr(Plain), JInt(5), JNone, JBool(TRUE), JList(<<JInt(1)>>),
     JDict(<<JItem(K_bugs, JStr(Plain))>>)}
NotAString ==
    {JInt(5), JNone, JBool(TRUE), JList(<<>>), JList(<<JStr(Plain)>>),
     JDict(<<JItem(K_bugs, JStr(Plain))>>)}

Misshapen ==
    {Without(Sample, k) : k \in RequiredKeys}
    \cup {With(Sample, k, w) : k \in ListKeys, w \in NotAList}
    \cup {With(Sample, K_corrected_code, w) : w \in NotAString}
    \cup {JList(<<JInt(1)>>), JList(<<Sample>>), JList(<<JStr(K_error)>>), JList(<<>>),
          JInt(5), JInt(0), JBool(TRUE), JBool(FALSE), JNone,
          JStr(Plain), JStr(<<"n", "o", " ">> \o K_error), JStr(<<>>),
          JDict(<<>>), JDict(<<JItem(K_bugs, JList(<<>>))>>)}

\* Replies that are no JSON text: empty, prose, a fenced record (the closing
\* fence stays), a Python literal, a truncated record.
Fence == <<BT, BT, BT>>
NotJson ==
    {<<>>,
     <<" ", "\n">>,
     <<"S", "o", "r", "r", "y">>,
     Fence \o <<"j", "s", "o", "n", "\n">> \o Dumps(Sample) \o <<"\n">> \o Fence,
     <<"{", "'", "b", "u", "g", "s", "'", ":", " ", "N", "o", "n", "e", ",", "\n", "}">>,
     SubSeq(Dumps(Sample), 1, 40)}

\* The arguments of the analyze_code calls under check: what the model call
\* gives, the value the reply was written from, and the kind of reply.
AnalyzeArg(reply, value, kind) == [reply |-> reply, value |-> value, kind |-> kind]

AnalyzeArgs ==
    {AnalyzeArg(Text(Dumps(v)), v, "well-formed") : v \in WellFormed}
    \cup {AnalyzeArg(Text(Dumps(v)), v, "misshapen") : v \in Misshapen}
    \cup {AnalyzeArg(Text(<<"\n", " ">> \o Fence \o <<"J", "S", "O", "N", "\n">>
                          \o Dumps(Sample) \o <<"\n">>), Sample, "fenced")}
    \cup {AnalyzeArg(Text(t), JNone, "not-json") : t \in NotJson}
    \cup {AnalyzeArg(Raises(e), JNone, "raises") : e \in {"ValueError", "ResourceExhausted"}}

\* What the model calls of a session give.
Replies ==
    {Text(Dumps(Sample)),
     Text(Dumps(JList(<<JInt(1)>>))),
     Text(Dumps(JDict(<<>>))),
     Text(<<"S", "o", "r", "r", "y">>),
     Raises("ValueError")}

ChatReplies == {Text(<<"S", "o", "r", "r", "y">>), Text(<<>>), Raises("ValueError")}

Queries == {<<"w", "h", "y", "?">>}

\* ------------------------------------------------------------------ the session

NoRun ==
    [valid |-> "none", extracted |-> FALSE, events |-> <<>>, error_message |-> <<>>,
     analyzed |-> <<>>, display |-> "hidden"]

NoCall == [fn |-> "none"]

MaxChat == 2

SessionOutcomes ==
    {Response(<<>>, <<OcrText>>), Response(<<"quota exceeded">>, <<>>),
     Raised("TimeoutError")}

FileAt(files, i) == IF i = NoFile THEN files[1] ELSE files[i]

\* The inputs of a run with the widgets at (m, image, source, text).
Inputs(m, image, source, text, clicked, user_query, setup, outcomes, reply, chat_reply) ==
    [method |-> m,
     image |-> image, image_file |-> FileAt(ImageFiles, image),
     source |-> source, source_file |-> FileAt(CodeFiles, source),
     new_code |-> text, clicked |-> clicked, user_query |-> user_query,
     setup |-> setup, outcomes |-> outcomes, reply |-> reply, chat_reply |-> chat_reply]

Quiet == [a \in 1..max_retries |-> Raised("TimeoutError")]

\* One script run with the widgets at (m, image, source, text): the
\* services answer in every way they can where the run calls them.
Step(m, image, source, text, clicked, user_query) ==
    \E dry \in {ScriptRun(session_state,
                          Inputs(m, image, source, text, clicked, user_query,
                                 "", Quiet, Raises(""), Raises("")))} :
    \E setup \in IF dry.observed.extracted THEN Setups ELSE {""} :
    \E outcomes \in IF dry.observed.extracted
                    THEN [1..max_retries -> SessionOutcomes] ELSE {Quiet} :
    \E reply \in IF dry.observed.analyzed # <<>> THEN Replies ELSE {Raises("")} :
    \E chat_reply \in IF user_query # <<>> THEN ChatReplies ELSE {Raises("")} :
    \E r \in {ScriptRun(session_state,
                        Inputs(m, image, source, text, clicked, user_query,
                               setup, outcomes, reply, chat_reply))} :
        /\ session_state' = r.ss
        /\ input_method' = m
        /\ img_file' = image
        /\ code_file' = source
        /\ pasted_code' = text
        /\ analyze_button' = r.button
        /\ rerun' = r.rerun
        /\ run' = r.observed
        /\ UNCHANGED <<credentials, call>>

Loaded == session_state.current_input_method # "None" /\ ~rerun

\* The first run of a session.
PageLoad ==
    /\ session_state.current_input_method = "None"
    /\ Step(input_method, img_file, code_file, pasted_code, FALSE, <<>>)

\* The user picks another input method: the widgets of the old one go.
SelectMethod ==
    /\ Loaded
    /\ \E m \in Methods \ {input_method} : Step(m, NoFile, NoFile, <<>>, FALSE, <<>>)

\* The user puts a file into the image uploader, or takes it out.
UploadImage ==
    /\ Loaded
    /\ input_method = "Upload Image"
    /\ \E i \in (0..Len(ImageFiles)) \ {img_file} :
          Step(input_method, i, code_file, pasted_code, FALSE, <<>>)

\* The user puts a file into the source uploader, or takes it out.
UploadFile ==
    /\ Loaded
    /\ input_method = "Upload File"
    /\ \E i \in (0..Len(CodeFiles)) \ {code_file} :
          Step(input_method, img_file, i, pasted_code, FALSE, <<>>)

\* The user edits the text area.
EditCode ==
    /\ Loaded
    /\ input_method = "Paste Code"
    /\ \E t \in Pastes \ {pasted_code} :
          Step(input_method, img_file, code_file, t, FALSE, <<>>)

\* The user clicks the Analyze button the last run rendered.
ClickAnalyze ==
    /\ Loaded
    /\ analyze_button
    /\ Step(input_method, img_file, code_file, pasted_code, TRUE, <<>>)

\* The user submits a chat message.
Chat ==
    /\ Loaded
    /\ Len(session_state.chat_history) + 2 <= MaxChat
    /\ \E q \in Queries :
          Step(input_method, img_file, code_file, pasted_code, FALSE, q)

\* The run st.rerun() starts.
Rerun ==
    /\ rerun
    /\ Step(input_method, img_file, code_file, pasted_code, FALSE, <<>>)

Init ==
    /\ credentials \in BOOLEAN
    /\ session_state = session_defaults
    /\ input_method = "Upload Image"
    /\ img_file = NoFile
    /\ code_file = NoFile
    /\ pasted_code = <<>>
    /\ analyze_button = FALSE
    /\ rerun = FALSE
    /\ run = NoRun
    /\ call = NoCall

Next ==
    \/ PageLoad
    \/ SelectMethod
    \/ UploadImage
    \/ UploadFile
    \/ EditCode
    \/ ClickAnalyze
    \/ Chat
    \/ Rerun

Spec == Init /\ [][Next]_vars

\* ------------------------------------------------------------------ the functions on their own
\* Each specification below draws the argument of one function in Init and
\* applies the function in its action; the session stays as constructed.

Idle ==
    /\ credentials = TRUE
    /\ session_state = session_defaults
    /\ input_method = "Upload Image"
    /\ img_file = NoFile
    /\ code_file = NoFile
    /\ pasted_code = <<>>
    /\ analyze_button = FALSE
    /\ rerun = FALSE
    /\ run = NoRun

Pending(fn, arg) == [fn |-> fn, arg |-> arg, done |-> FALSE]
Returned(fn, arg, ret) == [fn |-> fn, arg |-> arg, done |-> TRUE, ret |-> ret]

Others ==
    <<credentials, session_state, input_method, img_file, code_file, pasted_code,
      analyze_button, rerun, run>>

\* analyze_code, and the Results Display on what it returns.
InitAnalyze == Idle /\ call \in {Pending("analyze_code", a) : a \in AnalyzeArgs}

CallAnalyze ==
    /\ call.fn = "analyze_code" /\ ~call.done
    /\ \E results \in {analyze_code(<<"a">>, "text", call.arg.reply)} :
          call' = Returned(call.fn, call.arg,
                           [results |-> results, display |-> Display(results)])
    /\ UNCHANGED Others

SpecAnalyze == InitAnalyze /\ [][CallAnalyze]_vars

\* extract_code_from_image
ExtractArgs ==
    {[credentials |-> c, setup |-> u, outcomes |-> o] :
        c \in BOOLEAN, u \in Setups, o \in [1..max_retries -> Outcomes]}

InitExtract == Idle /\ call \in {Pending("extract_code_from_image", a) : a \in ExtractArgs}

CallExtract ==
    /\ call.fn = "extract_code_from_image" /\ ~call.done
    /\ call' = Returned(call.fn, call.arg,
                        extract_code_from_image(call.arg.credentials, call.arg.setup,
                                                call.arg.outcomes))
    /\ UNCHANGED Others

SpecExtract == InitExtract /\ [][CallExtract]_vars

\* validate_image and validate_code_file
Sizes == {0, 1000, MAX_IMAGE_SIZE - 1, MAX_IMAGE_SIZE, MAX_IMAGE_SIZE + 1, 2 * MAX_IMAGE_SIZE}
Kinds == {"jpeg", "png", "gif", "webp", "None"}

ImageArgs ==
    {Image(Name_a_png, z, k, f) : z \in Sizes, k \in Kinds, f \in {"", "OSError"}}

\* Names with an allowed extension (in either case), with another one, with
\* none, and with an empty one.
Names ==
    {Name_a_py, Name_b_JS,
     <<"a", ".", "t", "x", "t">>,
     <<"a", ".", "p", "y", ".", "e", "x", "e">>,
     <<"a", ".", "t", "a", "r", ".", "P", "h", "p">>,
     <<"M", "a", "k", "e", "f", "i", "l", "e">>,
     <<"p", "y">>,
     <<"a", ".", "p", "y", ".">>}

\* n two-byte characters
Wide(n) == [i \in 1..(2 * n) |-> IF i % 2 = 1 THEN 195 ELSE 169]

\* Contents at and around the length limit, in one- and two-byte
\* characters, and bytes that are not UTF-8.
Contents ==
    {<<>>, <<97, 10, 98>>, <<195, 169, 97>>,
     Filler(MAX_CODE_LENGTH), Filler(MAX_CODE_LENGTH + 1),
     Wide(MAX_CODE_LENGTH), Wide(MAX_CODE_LENGTH) \o <<97>>,
     <<97, 255>>, <<97, 195>>, <<169, 97>>, <<195, 97>>}

SourceArgs == {Source(n, b, f) : n \in Names, b \in Contents, f \in {"", "OSError"}}

InitValidate ==
    /\ Idle
    /\ call \in {Pending("validate_image", a) : a \in ImageArgs}
                \cup {Pending("validate_code_file", a) : a \in SourceArgs}

CallValidateImage ==
    /\ call.fn = "validate_image" /\ ~call.done
    /\ call' = Returned(call.fn, call.arg, validate_image(call.arg))
    /\ UNCHANGED Others

CallValidateCodeFile ==
    /\ call.fn = "validate_code_file" /\ ~call.done
    /\ call' = Returned(call.fn, call.arg, validate_code_file(call.arg))
    /\ UNCHANGED Others

NextValidate == CallValidateImage \/ CallValidateCodeFile

SpecValidate == InitValidate /\ [][NextValidate]_vars

\* ------------------------------------------------------------------ analyze_code: the claims
\* Under SpecAnalyze.  call.arg.reply is what the model call gave,
\* call.ret.results what analyze_code returned, call.ret.display what the
\* Results Display made of it.

Analyzed == call.fn = "analyze_code" /\ call.done

\* A record with error set.
IsErrorRecord(v) == v.t = "dict" /\ HasKey(v, K_error)

\* The JSON value the reply's text is, read as it stands (not ok when the
\* text is no JSON text).
ReplyValue == json_loads(call.arg.reply.text)

\* C1: for every reply that parses to a JSON value lacking one of the five
\* required keys, or carrying one with the wrong type, analyze_code returns
\* a record with error set, never a partially populated success record.
C1_MisshapenReplyIsAnError ==
    (/\ Analyzed
     /\ call.arg.reply.kind = "text"
     /\ ReplyValue.ok
     /\ ~WellShaped(ReplyValue.v))
        => IsErrorRecord(call.ret.results)

\* C1's case: the reply is a record without "bugs"; what comes back is that
\* record, with its four other fields and no error, and it is displayed.
C1_PartialRecordReturned ==
    /\ Analyzed
    /\ call.arg.reply = Text(Dumps(Without(Sample, K_bugs)))
    /\ call.ret.results = Without(Sample, K_bugs)
    /\ call.ret.display = "results"

\* The text analyze_code hands to json.loads is no JSON text.
ParseFails ==
    /\ call.arg.reply.kind = "text"
    /\ ~json_loads(Repair(Remove(StripFence(Strip(call.arg.reply.text)),
                                 ControlChars))).ok

\* C2: analyze_code returns a value for every outcome of the model call and
\* of the parse, every failure (the call raises, the parse fails) is
\* returned as a record with error set, and the Results Display runs on
\* every value returned without an exception leaving it.
C2_NeverRaisesIntoDisplay ==
    Analyzed =>
        /\ call.ret.results.t \in {"dict", "list", "str", "int", "bool", "None"}
        /\ (call.arg.reply.kind = "raises" \/ ParseFails)
               => IsErrorRecord(call.ret.results)
        /\ call.ret.display # "raised"

\* C2's case: the reply is the JSON array [1]; analyze_code returns the
\* list, and results.get raises in the display.
C2_DisplayRaisesOnList ==
    /\ Analyzed
    /\ call.arg.reply = Text(<<"[", "1", "]">>)
    /\ call.ret.results = JList(<<JInt(1)>>)
    /\ call.ret.display = "raised"

\* C3: for every well-formed JSON object reply with the five required keys
\* (four lists of strings and one string), analyze_code returns a record
\* whose five fields equal the values of the reply, also when the strings
\* hold apostrophes, the words True, False and None, or escaped newlines.
C3_WellFormedReplyRoundTrips ==
    (/\ Analyzed
     /\ call.arg.reply.kind = "text"
     /\ ReplyValue.ok
     /\ WellShaped(ReplyValue.v))
        => /\ call.ret.results.t = "dict"
           /\ \A k \in RequiredKeys :
                 /\ HasKey(call.ret.results, k)
                 /\ Get(call.ret.results, k) = Get(ReplyValue.v, k)

\* C3's case: a well-formed record whose corrected_code is the word None
\* comes back with corrected_code "null".
C3_WordRewritten ==
    /\ Analyzed
    /\ ReplyValue.ok
    /\ WellShaped(ReplyValue.v)
    /\ Get(ReplyValue.v, K_corrected_code) = JStr(<<"N", "o", "n", "e">>)
    /\ call.ret.results.t = "dict"
    /\ HasKey(call.ret.results, K_corrected_code)
    /\ Get(call.ret.results, K_corrected_code) = JStr(<<"n", "u", "l", "l">>)

\* ------------------------------------------------------------------ extract_code_from_image: the claims
\* Under SpecExtract.  call.arg is [credentials, setup, outcomes],
\* call.ret.ret the pair returned, call.ret.events the calls and sleeps.

Extracted == call.fn = "extract_code_from_image" /\ call.done

IsCall(e) == e.op = "text_detection"

\* What the call of event e gave.
OutcomeOf(e) == call.arg.outcomes[e.arg + 1]

\* A call that succeeded, with no error message and an annotation.
GoodResponse(o) == o.kind = "response" /\ o.message = <<>> /\ o.annotations # <<>>

\* A reason that is not the empty string: it has a first piece of text.
NonEmptyReason(r) == r # <<>> /\ r[1] # ""

\* C4: extract_code_from_image never raises past its boundary.  It returns
\* (False, reason) with a non-empty reason when the credentials are
\* missing, when the service reports an error message, when nothing is
\* detected, and when the client raises a timeout or any other exception
\* (on the last attempt too); it returns (True, text) only when a call
\* succeeded with no error message and at least one annotation.
C4_FailuresAreReturnedWithAReason ==
    Extracted =>
        LET ret == call.ret.ret
            ev == call.ret.events
            last == ev[Len(ev)]
        IN /\ ret[1] \in BOOLEAN
           /\ ~ret[1] => NonEmptyReason(ret[2])
           /\ ~call.arg.credentials => ~ret[1]
           /\ call.arg.setup # "" => ~ret[1]
           /\ (ev # <<>> /\ ~GoodResponse(OutcomeOf(last))) => ~ret[1]
           /\ ret[1] => /\ call.arg.credentials
                        /\ ev # <<>>
                        /\ IsCall(last)
                        /\ GoodResponse(OutcomeOf(last))

\* C4's case: the client raises on the third attempt too, and the timeout
\* comes back as a reason.
C4_LastAttemptRaises ==
    /\ Extracted
    /\ Len(call.ret.events) = 5
    /\ call.arg.outcomes[3] = Raised("TimeoutError")
    /\ call.ret.ret = <<FALSE, <<"OCR processing timed out">>>>

\* C5: within one invocation the text-detection service is called at most
\* 3 times, and never again after the first call that returns; an attempt
\* that raises and is not the third is followed by a wait of 2^attempt
\* seconds (1 s, then 2 s) and by another attempt, whatever the exception;
\* an attempt that raises ends the invocation, with a failure result, only
\* when it is the third in a row.
C5_RetriesWithBackoff ==
    Extracted =>
        LET ev == call.ret.events
            calls == SelectSeq(ev, IsCall)
        IN /\ Len(calls) <= 3
           /\ \A k \in 1..Len(calls) : calls[k].arg = k - 1
           /\ \A k \in 1..Len(ev) :
                 (IsCall(ev[k]) /\ OutcomeOf(ev[k]).kind = "response") => k = Len(ev)
           /\ \A k \in 1..Len(ev) :
                 (IsCall(ev[k]) /\ OutcomeOf(ev[k]).kind = "raises" /\ ev[k].arg < 2)
                     => /\ Len(ev) >= k + 2
                        /\ ev[k + 1] = Sleep(IF ev[k].arg = 0 THEN 1 ELSE 2)
                        /\ ev[k + 2] = Call(ev[k].arg + 1)
           /\ (ev # <<>> /\ OutcomeOf(ev[Len(ev)]).kind = "raises")
                  => /\ Len(calls) = 3
                     /\ \A k \in 1..3 : OutcomeOf(calls[k]).kind = "raises"
                     /\ ~call.ret.ret[1]

\* C5's case: two attempts raise, a timeout and another exception, and the
\* third returns: a wait of 1 s, one of 2 s, and the text.
C5_ThirdAttemptReturns ==
    /\ Extracted
    /\ call.arg.outcomes[1] = Raised("TimeoutError")
    /\ call.arg.outcomes[2] = Raised("ValueError")
    /\ call.ret.events = <<Call(0), Sleep(1), Call(1), Sleep(2), Call(2)>>
    /\ call.ret.ret[1]

\* ------------------------------------------------------------------ the validators: the claim
\* Under SpecValidate.  call.arg is the file, call.ret what the validator
\* returned: (valid, reason) for an image, (valid, content, reason or
\* extension) for a source file.

ValidatedImage == call.fn = "validate_image" /\ call.done
ValidatedCodeFile == call.fn = "validate_code_file" /\ call.done

\* The extension of a file name: what follows its last dot, in lower case
\* (the name itself when it has no dot).
Extension(name) == LastPart(Lower(name))

\* The number of characters the bytes decode to.
Characters(bytes) == Cardinality({i \in 1..Len(bytes) : ~IsCont(bytes[i])})

\* C6: an upload that exceeds a limit is rejected with a reason naming the
\* limit.  validate_image rejects an image over 5 MiB with a size reason,
\* and one whose detected type is not jpeg or png with a format reason;
\* validate_code_file rejects a file whose extension is not allow-listed
\* with a file-type reason, bytes that are not UTF-8 with an encoding
\* reason, and decoded content of more than 5000 characters with a length
\* reason.  Where a file exceeds several limits the reason names the first
\* of them in the order above; a file that cannot be read is rejected too.
C6_RejectedWithTheLimitNamed ==
    /\ ValidatedImage =>
          LET f == call.arg
              valid == call.ret[1]
              reason == call.ret[2]
              big == f.size > 5 * 1024 * 1024
              odd == f.what \notin {"jpeg", "png"}
          IN /\ (big \/ odd \/ f.fault # "") => ~valid
             /\ (f.fault = "" /\ big) => reason[1] = "File too large ("
             /\ (f.fault = "" /\ ~big /\ odd) => reason[1] = "Unsupported format: "
    /\ ValidatedCodeFile =>
          LET f == call.arg
              valid == call.ret[1]
              reason == call.ret[3]
              listed == Extension(f.name) \in ALLOWED_CODE_EXTENSIONS
              utf8 == ValidUtf8(f.bytes)
              long == Characters(f.bytes) > 5000
          IN /\ (~listed \/ ~utf8 \/ long \/ f.fault # "") => ~valid
             /\ ~valid => call.ret[2] = <<>>
             /\ ~listed => reason[1] = "Unsupported file type: ."
             /\ (listed /\ f.fault = "" /\ ~utf8) => reason = <<"Invalid text encoding">>
             /\ (listed /\ f.fault = "" /\ utf8 /\ long) => reason[1] = "File too large ("

\* C6's case: a source file of 5001 characters under an allow-listed name
\* is rejected for its length.
C6_OneCharacterTooLong ==
    /\ ValidatedCodeFile
    /\ call.arg.name = Name_a_py
    /\ call.arg.fault = ""
    /\ Len(call.arg.bytes) = 5001
    /\ ~call.ret[1]
    /\ call.ret[3][1] = "File too large ("

\* ------------------------------------------------------------------ the session: the claims
\* Under Spec.  Every state is the end of a script run; `run` is what that
\* run called.

\* C7: an invalid upload is never partially processed.  In a script run
\* where validate_image or validate_code_file returns valid = False, no OCR
\* call and no analysis call is made, and the run ends with current_code
\* empty and processed_file_id None.  (The chat call of such a run sends the
\* user's question and nothing else.)
C7_RejectedUploadIsNotProcessed ==
    run.valid = "no" =>
        /\ ~run.extracted
        /\ \A k \in 1..Len(run.events) : run.events[k].op # "text_detection"
        /\ run.analyzed = <<>>
        /\ ~analyze_button
        /\ session_state.current_code = <<>>
        /\ session_state.processed_file_id = NoneId

\* C7's case: a source file that is not UTF-8 has been rejected, and the
\* message for it is on the page.
C7_EncodingRejected ==
    /\ run.valid = "no"
    /\ input_method = "Upload File"
    /\ code_file = 3
    /\ run.error_message = <<"Invalid file: ">>
    /\ session_state.current_code = <<>>

\* C8: whenever analysis_results is non-empty at the Results Display it was
\* produced by analyze_code from the current value of current_code: every
\* run that changes current_code, the failure paths that reset it to the
\* empty string included, also leaves analysis_results empty.
C8_ResultsBelongToCurrentCode ==
    [][session_state'.current_code # session_state.current_code
          => ~Truthy(session_state'.analysis_results)]_vars

\* C8's case: the results of an earlier analysis are displayed, and
\* current_code is empty because the upload that followed was rejected.
C8_StaleResultsDisplayed ==
    /\ Truthy(session_state.analysis_results)
    /\ run.display # "hidden"
    /\ run.error_message # <<>>
    /\ session_state.current_code = <<>>

\* C9: whenever analyze_code is invoked on code that came from an uploaded
\* source file with allow-listed extension ext, its language argument is
\* the language mapped from ext (py to python, js to javascript, ...), not
\* the default "text"; the Analyze click is handled in a later run than the
\* one that validated the file.
C9_LanguageFollowsExtension ==
    (/\ run.analyzed # <<>>
     /\ session_state.current_input_method = "Upload File"
     /\ session_state.file_extension \in ALLOWED_CODE_EXTENSIONS)
        => /\ run.analyzed[1].language = LanguageOf(session_state.file_extension)
           /\ run.analyzed[1].language # "text"

\* C9's case: the code of a.py is analysed as "text".
C9_PythonAnalysedAsText ==
    /\ run.analyzed # <<>>
    /\ session_state.current_input_method = "Upload File"
    /\ session_state.file_extension = <<"p", "y">>
    /\ run.analyzed[1].code = session_state.current_code
    /\ run.analyzed[1].language = "text"

\* The id of the file selected in the uploader of the current method.
SelectedId ==
    IF input_method = "Upload Image" /\ img_file # NoFile
    THEN <<"image", ImageFiles[img_file].name, ImageFiles[img_file].size>>
    ELSE IF input_method = "Upload File" /\ code_file # NoFile
         THEN <<"file", CodeFiles[code_file].name, Len(CodeFiles[code_file].bytes)>>
         ELSE NoneId

\* The selected upload has been processed.
Processed ==
    /\ SelectedId # NoneId
    /\ session_state.processed_file_id = SelectedId
    /\ session_state.current_input_method = input_method

SameSelection ==
    /\ input_method' = input_method
    /\ img_file' = img_file
    /\ code_file' = code_file

\* C10: the processing flag is False at the end of every script run, the
\* runs in which validation or extraction fails included; and once an
\* upload has been processed (processed_file_id is the selected file's id),
\* a later run with the same file selected and the same input method makes
\* no validation or OCR call and leaves current_code unchanged.
C10_ProcessedOnce ==
    /\ [](session_state.processing = FALSE)
    /\ [][(Processed /\ SameSelection)
             => /\ run'.valid = "none"
                /\ ~run'.extracted
                /\ run'.events = <<>>
                /\ session_state'.current_code = session_state.current_code]_vars

\* C10's case: the image was processed in an earlier run; the run of the
\* Analyze click made no validation or OCR call, and the flag is False.
C10_AnalyzedWithoutReprocessing ==
    /\ Processed
    /\ input_method = "Upload Image"
    /\ run.analyzed # <<>>
    /\ run.valid = "none"
    /\ ~run.extracted
    /\ ~session_state.processing

====
